---- MODULE Spec2Model ----
(***************************************************************************)
(* Langton's ant on a fixed rectangular grid (SDesya74/antventure).        *)
(*                                                                         *)
(* Two binaries implement the same automaton:                              *)
(*   src/bin/naive.rs    the grid is [[bool; MAP_SIZE]; MAP_SIZE], the ant *)
(*                       holds a raw Pos (isize, isize);                   *)
(*   src/bin/serious.rs  the grid is a bit vector of W*H bools, the ant    *)
(*                       holds a MapPos that only validate_pos can build.  *)
(*                                                                         *)
(* The variable "variant" says which binary a behaviour is about.  The     *)
(* grid dimensions are compile-time constants of the program (W, H const   *)
(* generics in serious.rs, MAP_SIZE in naive.rs); a behaviour fixes them   *)
(* in its initial state, drawn from small ranges.                          *)
(***************************************************************************)
EXTENDS Integers, FiniteSets, Sequences, TLC

(* ------------------------------ bounds --------------------------------- *)

\* largest width / height of a serious.rs Map<W, H>
MaxW == 4
MaxH == 4
\* largest MAP_SIZE of a naive.rs Map (a square grid)
MaxSize == 4
\* how far outside the grid a raw start coordinate may lie
RawMargin == 2
\* width in bits of isize / usize in the model (64 in the build; the model
\* checker's integers are 32 bits wide, the grid is far smaller than either)
UsizeBits == 8

(* ------------------------------- state --------------------------------- *)

VARIABLES
    variant,    \* "naive" or "serious": which binary runs
    W, H,       \* grid dimensions (naive: W = H = MAP_SIZE)
    map,        \* the Map's cells
    phase,      \* "created": Map built, no Ant yet; "active": an Ant exists;
                \* "rejected": Ant::new returned Err; "panicked": unwrap failed;
                \* "ub": an unchecked access left the bit vector;
                \* "saved": save_map_to_file has run
    ant,        \* [pos, dir] of the Ant (meaningful from phase "active" on)
    err,        \* the Pos carried by the Err of Ant::new (phase "rejected")
    ret,        \* result of the last walk(): "none" before the first, else "true" or "false"
    start,      \* history: the raw [pos, dir] given to Ant::new
    vin, vout,  \* history: last argument and result of MapPos::validate_pos
    odd,        \* history: the coordinates walk() has toggled an odd number of times
    twin,       \* a naive.rs Map and Ant run next to the serious.rs ones (SpecEq only)
    gin, gout,  \* history: last argument and result of Map::get of naive.rs
    image       \* the pixel data save_map_to_file handed to the image encoder

vars == <<variant, W, H, map, phase, ant, err, ret, start, vin, vout, odd,
          twin, gin, gout, image>>

\* the variables only the read, save and lockstep operations write
aux == <<twin, gin, gout, image>>

(* ------------------------------ Direction ------------------------------ *)

VARIANTS == <<"North", "East", "South", "West">>

Direction == {VARIANTS[i] : i \in 1..4}

\* `self as usize` / `self as isize`: the enum discriminant
Discriminant(d) == CHOOSE i \in 0..3 : VARIANTS[i + 1] = d

\* a half turn: the increment 2 instead of 1
cw_half_turn(d) == VARIANTS[((Discriminant(d) + 2) % Len(VARIANTS)) + 1]

\* Direction::cw
cw(d) == VARIANTS[((Discriminant(d) + 1) % Len(VARIANTS)) + 1]

\* ccw written with the increment of cw
ccw_as_cw(d) == VARIANTS[((Discriminant(d) + 1) % Len(VARIANTS)) + 1]

\* isize::rem_euclid with a positive modulus is the mathematical modulus
ccw(d) == VARIANTS[((Discriminant(d) - 1) % Len(VARIANTS)) + 1]

(* --------------------------------- Pos --------------------------------- *)

Pos(x, y) == [x |-> x, y |-> y]

\* North and South exchanged (y taken to grow upwards)
to_shift_y_up(d) ==
    CASE d = "North" -> Pos(0, 1)
      [] d = "East"  -> Pos(1, 0)
      [] d = "South" -> Pos(0, -1)
      [] d = "West"  -> Pos(-1, 0)

to_shift(d) ==
    CASE d = "North" -> Pos(0, -1)
      [] d = "East"  -> Pos(1, 0)
      [] d = "South" -> Pos(0, 1)
      [] d = "West"  -> Pos(-1, 0)

\* the shift subtracted instead of added
MapPosAdd_sub(mp, rhs) == Pos(mp.x - rhs.x, mp.y - rhs.y)

\* impl Add<Pos> for MapPos: the sum is a raw Pos again
MapPosAdd(mp, rhs) == Pos(mp.x + rhs.x, mp.y + rhs.y)

\* upper bounds compared with > instead of >=
validate_pos_off_by_one(w, h, pos) ==
    IF pos.x < 0 \/ pos.x > w \/ pos.y < 0 \/ pos.y > h
    THEN [ok |-> FALSE, val |-> pos]
    ELSE [ok |-> TRUE, val |-> Pos(pos.x, pos.y)]

\* the lower bounds not checked
validate_pos_no_lower(w, h, pos) ==
    IF pos.x >= w \/ pos.y >= h
    THEN [ok |-> FALSE, val |-> pos]
    ELSE [ok |-> TRUE, val |-> Pos(pos.x, pos.y)]

\* MapPos::validate_pos for Map<w, h>
validate_pos(w, h, pos) ==
    IF pos.x < 0 \/ pos.x >= w \/ pos.y < 0 \/ pos.y >= h
    THEN [ok |-> FALSE, val |-> pos]
    ELSE [ok |-> TRUE, val |-> Pos(pos.x, pos.y)]

\* the cast taking the magnitude (unsigned_abs) instead of wrapping
AsUsize_abs(v) == IF v < 0 THEN 0 - v ELSE v

\* `v as usize` of an isize v: two's complement reinterpretation
AsUsize(v) == v % (2 ^ UsizeBits)

(* ------------------------------ serious Map ---------------------------- *)

\* the vector filled with false
new_white_filled_false(w, h) == [i \in 0..(w * h - 1) |-> FALSE]

\* Map::new_white: BoolVec::filled_with(W * H, true)
new_white(w, h) == [i \in 0..(w * h - 1) |-> TRUE]

\* column-major index
CellIndex_transposed(w, pos) == pos.x * w + pos.y

\* the index Map::get_mut computes
CellIndex(w, pos) == pos.y * w + pos.x

\* the bit cleared instead of negated
invert_clear(m, i) == [m EXCEPT ![i] = FALSE]

\* the bit written back as read
invert_noop(m, i) == m

\* CellMut::invert on the bit i of the vector
invert(m, i) == [m EXCEPT ![i] = ~m[i]]

\* the bit read negated
is_white_negated(m, i) == ~m[i]

\* CellMut::is_white
is_white(m, i) == m[i]

\* the set bits counted instead of the clear ones
count_black_tiles_ones(m) == Cardinality({i \in DOMAIN m : m[i]})

\* Map::count_black_tiles of serious.rs: count() - count_ones()
count_black_tiles(m) == Cardinality(DOMAIN m) - Cardinality({i \in DOMAIN m : m[i]})

(* ------------------------------- naive Map ----------------------------- *)

\* Map::new of naive.rs: [[true; MAP_SIZE]; MAP_SIZE], rows first
naive_new(size) == [y \in 0..(size - 1) |-> [x \in 0..(size - 1) |-> TRUE]]

\* the two indices exchanged
naive_get_transposed(m, pos) ==
    LET yi == AsUsize(pos.y)
        xi == AsUsize(pos.x)
    IN IF xi \notin DOMAIN m THEN [some |-> FALSE, val |-> FALSE]
       ELSE IF yi \notin DOMAIN m[xi] THEN [some |-> FALSE, val |-> FALSE]
       ELSE [some |-> TRUE, val |-> m[xi][yi]]

\* Map::get_mut / Map::get of naive.rs: the checked double index
naive_get(m, pos) ==
    LET yi == AsUsize(pos.y)
        xi == AsUsize(pos.x)
    IN IF yi \notin DOMAIN m THEN [some |-> FALSE, val |-> FALSE]
       ELSE IF xi \notin DOMAIN m[yi] THEN [some |-> FALSE, val |-> FALSE]
       ELSE [some |-> TRUE, val |-> m[yi][xi]]

\* *cell = !*cell through the reference get_mut returned
naive_invert(m, pos) ==
    [m EXCEPT ![AsUsize(pos.y)][AsUsize(pos.x)] = ~m[AsUsize(pos.y)][AsUsize(pos.x)]]

\* Map::count_black_tiles of naive.rs: iter().flatten().filter(|e| !**e).count()
naive_count_black_tiles(m) ==
    Cardinality({c \in (DOMAIN m) \X (DOMAIN m) : ~m[c[1]][c[2]]})

(* ------------------------------- helpers ------------------------------- *)

InBounds(p) == 0 <= p.x /\ p.x < W /\ 0 <= p.y /\ p.y < H

\* the value of the cell (x, y) of grid m in either representation
CellAt(m, p) == IF variant = "serious" THEN m[p.y * W + p.x] ELSE m[p.y][p.x]

CountMarked(m) ==
    IF variant = "serious" THEN count_black_tiles(m) ELSE naive_count_black_tiles(m)

GridCells == {Pos(x, y) : x \in 0..(W - 1), y \in 0..(H - 1)}

NoPos == Pos(0, 0)
NoAnt == [pos |-> NoPos, dir |-> "North"]
NoRes == [ok |-> FALSE, val |-> NoPos]
NoCell == [some |-> FALSE, val |-> FALSE]
NoTwin == [map |-> <<>>, ant |-> NoAnt, ret |-> "none", phase |-> "absent"]
NoImage == [saved |-> FALSE, width |-> 0, height |-> 0, data |-> <<>>]

\* flip membership of p in the set s
Flip(s, p) == IF p \in s THEN s \ {p} ELSE s \cup {p}

(* -------------------------------- Init --------------------------------- *)

\* the state after Map::new_white() / Map::new(), before Ant::new
Init ==
    /\ variant \in {"naive", "serious"}
    /\ W \in IF variant = "naive" THEN 1..MaxSize ELSE 1..MaxW
    /\ H \in IF variant = "naive" THEN {W} ELSE 1..MaxH
    /\ map = IF variant = "serious" THEN new_white(W, H) ELSE naive_new(W)
    /\ phase = "created"
    /\ ant = NoAnt
    /\ err = NoPos
    /\ ret = "none"
    /\ start = NoAnt
    /\ vin = NoPos
    /\ vout = NoRes
    /\ odd = {}
    /\ twin = NoTwin
    /\ gin = NoPos
    /\ gout = NoCell
    /\ image = NoImage

RawStarts == {Pos(x, y) : x \in (0 - RawMargin)..(W + RawMargin - 1),
                          y \in (0 - RawMargin)..(H + RawMargin - 1)}

(* ------------------------------ serious.rs ----------------------------- *)

\* Ant::new that keeps the raw position without validating it
SeriousNew_unvalidated(p, d) ==
    /\ variant = "serious"
    /\ phase = "created"
    /\ vin' = p
    /\ vout' = validate_pos(W, H, p)
    /\ ant' = [pos |-> p, dir |-> d]
    /\ phase' = "active"
    /\ start' = [pos |-> p, dir |-> d]
    /\ UNCHANGED <<variant, W, H, map, err, ret, odd>>

\* Ant::new(map, pos, dir) -> Result<Self, Pos>
SeriousNew(p, d) ==
    /\ variant = "serious"
    /\ phase = "created"
    /\ LET r == validate_pos(W, H, p)
       IN /\ vin' = p
          /\ vout' = r
          /\ IF r.ok
             THEN /\ ant' = [pos |-> r.val, dir |-> d]
                  /\ phase' = "active"
                  /\ err' = err
             ELSE /\ ant' = ant
                  /\ phase' = "rejected"
                  /\ err' = r.val
    /\ start' = [pos |-> p, dir |-> d]
    /\ UNCHANGED <<variant, W, H, map, ret, odd>>

\* Ant::walk(&mut self) -> bool
SeriousWalk ==
    /\ variant = "serious"
    /\ phase = "active"
    /\ LET i == CellIndex(W, ant.pos)
       IN IF i \notin DOMAIN map
          THEN \* get_unchecked_mut past the end: undefined behaviour
               /\ phase' = "ub"
               /\ UNCHANGED <<map, ant, ret, vin, vout, odd>>
          ELSE LET m1 == invert(map, i)
                   d1 == IF is_white(m1, i) THEN cw(ant.dir) ELSE ccw(ant.dir)
                   shift == to_shift(d1)
                   new_pos == MapPosAdd(ant.pos, shift)
                   r == validate_pos(W, H, new_pos)
               IN /\ map' = m1
                  /\ odd' = Flip(odd, ant.pos)
                  /\ vin' = new_pos
                  /\ vout' = r
                  /\ IF r.ok
                     THEN /\ ant' = [pos |-> r.val, dir |-> d1]
                          /\ ret' = "true"
                     ELSE /\ ant' = [pos |-> ant.pos, dir |-> d1]
                          /\ ret' = "false"
                  /\ phase' = phase
    /\ UNCHANGED <<variant, W, H, err, start>>

(* ------------------------------- naive.rs ------------------------------ *)

\* the value Ant::new(pos, dir) of naive.rs returns: Self { pos, dir }
naive_ant_new(p, d) == [pos |-> p, dir |-> d]

\* Ant::new(pos, dir) -> Self: no validation
NaiveNew(p, d) ==
    /\ variant = "naive"
    /\ phase = "created"
    /\ ant' = naive_ant_new(p, d)
    /\ phase' = "active"
    /\ start' = [pos |-> p, dir |-> d]
    /\ UNCHANGED <<variant, W, H, map, err, ret, vin, vout, odd>>

\* the body of Ant::walk(&mut self, map) -> bool on the Map m of side size and
\* the Ant a whose previous walk returned r: the Map, the Ant and the result
\* after it, or a panic
naive_walk(size, m, a, r) ==
    IF ~naive_get(m, a.pos).some
    THEN \* map.get_mut(&self.pos).unwrap() on None
         [panic |-> TRUE, map |-> m, ant |-> a, ret |-> r]
    ELSE LET m1 == naive_invert(m, a.pos)
             d1 == IF naive_get(m1, a.pos).val THEN cw(a.dir) ELSE ccw(a.dir)
             shift == to_shift(d1)
             new_x == a.pos.x + shift.x
             new_y == a.pos.y + shift.y
         IN IF new_x < 0 \/ new_x >= size \/ new_y < 0 \/ new_y >= size
            THEN [panic |-> FALSE, map |-> m1,
                  ant |-> [pos |-> a.pos, dir |-> d1], ret |-> "false"]
            ELSE [panic |-> FALSE, map |-> m1,
                  ant |-> [pos |-> Pos(new_x, new_y), dir |-> d1], ret |-> "true"]

\* Ant::walk(&mut self, map) -> bool
NaiveWalk ==
    /\ variant = "naive"
    /\ phase = "active"
    /\ LET r == naive_walk(W, map, ant, ret)
       IN /\ map' = r.map
          /\ ant' = r.ant
          /\ ret' = r.ret
          /\ phase' = IF r.panic THEN "panicked" ELSE phase
          /\ odd' = IF r.panic THEN odd ELSE Flip(odd, ant.pos)
    /\ UNCHANGED <<variant, W, H, err, start, vin, vout>>

\* Map::get(&self, pos) -> Option<bool>, on any raw coordinate.  It is
\* read-only, so a behaviour issues it once: a second read would see what a
\* first read issued in the same state sees.
NaiveGet(p) ==
    /\ variant = "naive"
    /\ phase \in {"created", "active"}
    /\ gin = NoPos /\ gout = NoCell
    /\ gin' = p
    /\ gout' = naive_get(map, p)
    /\ UNCHANGED <<variant, W, H, map, phase, ant, err, ret, start, vin, vout, odd,
                   twin, image>>

(* ---------------------------- save_map_to_file ------------------------- *)

\* the value of bit j (0 = most significant) of the byte b
Bit(b, j) == (b \div (2 ^ (7 - j))) % 2

\* the byte k of the bit vector m: the cells 8k .. 8k+7, the first one in the
\* most significant bit ("1-bit grayscale representation in memory"); the bits
\* of the last byte past the end of the vector are taken as 0
ByteOf(m, k) ==
    LET bit(j) == IF 8 * k + j \in DOMAIN m /\ m[8 * k + j] THEN 2 ^ (7 - j) ELSE 0
    IN bit(0) + bit(1) + bit(2) + bit(3) + bit(4) + bit(5) + bit(6) + bit(7)

\* map.0.bytes().copied().collect::<Vec<_>>(): one byte per 8 cells, the last
\* one partly used when the length is not a multiple of 8
bytes(m) ==
    LET n == Cardinality(DOMAIN m)
        nb == (n + 7) \div 8
    IN [k \in 1..nb |-> ByteOf(m, k - 1)]

\* save_map_to_file of serious.rs, called by main after walk_until_end: the
\* header is W x H, 1 bit per pixel, and the data &bytes[0..(W * H / 8)]
SeriousSave ==
    /\ variant = "serious"
    /\ phase = "active"
    /\ ret = "false"
    /\ image' = [saved |-> TRUE, width |-> W, height |-> H,
                 data |-> SubSeq(bytes(map), 1, (W * H) \div 8)]
    /\ phase' = "saved"
    /\ UNCHANGED <<variant, W, H, map, ant, err, ret, start, vin, vout, odd,
                   twin, gin, gout>>

\* save_map_to_file of naive.rs, called by main after walk_until_end: a
\* MAP_SIZE x MAP_SIZE GrayImage (row-major, one byte per pixel) with
\* put_pixel(x, y, Luma([if is_white { 255 } else { 0 }])) for every x and y
NaiveSave ==
    /\ variant = "naive"
    /\ phase = "active"
    /\ ret = "false"
    /\ image' = [saved |-> TRUE, width |-> W, height |-> W,
                 data |-> [i \in 0..(W * W - 1) |->
                              IF naive_get(map, Pos(i % W, i \div W)).val
                              THEN 255 ELSE 0]]
    /\ phase' = "saved"
    /\ UNCHANGED <<variant, W, H, map, ant, err, ret, start, vin, vout, odd,
                   twin, gin, gout>>

(* ------------------------- both binaries side by side ------------------ *)

\* Map::<S, S>::new_white() of serious.rs and Map::new() of naive.rs with
\* MAP_SIZE = S, before either Ant::new
InitEq ==
    /\ variant = "serious"
    /\ W \in 1..MaxSize
    /\ H = W
    /\ map = new_white(W, H)
    /\ phase = "created"
    /\ ant = NoAnt
    /\ err = NoPos
    /\ ret = "none"
    /\ start = NoAnt
    /\ vin = NoPos
    /\ vout = NoRes
    /\ odd = {}
    /\ twin = [map |-> naive_new(W), ant |-> NoAnt, ret |-> "none", phase |-> "created"]
    /\ gin = NoPos
    /\ gout = NoCell
    /\ image = NoImage

\* Ant::new of both binaries on the same in-bounds start and heading
EqNew(p, d) ==
    /\ twin.phase = "created"
    /\ SeriousNew(p, d)
    /\ twin' = [twin EXCEPT !.ant = naive_ant_new(p, d), !.phase = "active"]
    /\ UNCHANGED <<gin, gout, image>>

\* one walk() of each binary
EqWalk ==
    /\ twin.phase = "active"
    /\ SeriousWalk
    /\ LET r == naive_walk(W, twin.map, twin.ant, twin.ret)
       IN twin' = [map |-> r.map, ant |-> r.ant, ret |-> r.ret,
                   phase |-> IF r.panic THEN "panicked" ELSE "active"]
    /\ UNCHANGED <<gin, gout, image>>

(* ----------------------------- specification --------------------------- *)

New ==
    /\ \E p \in RawStarts, d \in Direction : SeriousNew(p, d) \/ NaiveNew(p, d)
    /\ UNCHANGED aux

Walk ==
    /\ SeriousWalk \/ NaiveWalk
    /\ UNCHANGED aux

Next == New \/ Walk

Spec == Init /\ [][Next]_vars

\* Ant::walk_until_end: `while self.walk() {}` calls walk() until one returns
\* false; one iteration of the loop, entered right after Ant::new as in main
walk_until_end ==
    /\ ret # "false"
    /\ Walk

NextRun == New \/ walk_until_end

\* the run of main: Ant::new, then the loop to its end; the loop runs as long
\* as it can (the program is sequential and nothing else is scheduled)
SpecRun == Init /\ [][NextRun]_vars /\ WF_vars(walk_until_end)

\* the run of main, with the safe read callable at any point on any raw
\* coordinate
Get == \E p \in RawStarts : NaiveGet(p)

NextRead == NextRun \/ Get

SpecRead == Init /\ [][NextRead]_vars

\* the run of main to its end: Ant::new, the loop, save_map_to_file
Save == SeriousSave \/ NaiveSave

NextSave == NextRun \/ Save

SpecSave == Init /\ [][NextSave]_vars

\* both binaries in lockstep from the same in-bounds start
EqStart == \E p \in GridCells, d \in Direction : EqNew(p, d)

NextEq == EqStart \/ EqWalk

SpecEq == InitEq /\ [][NextEq]_vars

TypeOK ==
    /\ variant \in {"naive", "serious"}
    /\ W \in Nat \ {0} /\ H \in Nat \ {0}
    /\ variant = "naive" => W = H
    /\ phase \in {"created", "active", "rejected", "panicked", "ub", "saved"}
    /\ ant.dir \in Direction
    /\ ret \in {"none", "true", "false"}

(* ------------------------------- claims -------------------------------- *)

\* a step of Next taken by walk() that returned (it neither panicked nor left
\* the bit vector); every non-stuttering step from phase "active" is a walk
WalkStep == phase = "active" /\ phase' = "active" /\ vars' # vars

\* a step of Next taken by Ant::new
NewStep == phase = "created" /\ phase' # "created"

\* the cells of the grid whose value differs between m1 and m2
Changed(m1, m2) == {p \in GridCells : CellAt(m1, p) # CellAt(m2, p)}

\* C1: with an in-bounds start, in every state reached by any sequence of
\* walk() calls (also after one that returned false) the ant's position is
\* inside the grid, so the cell access of the next walk() is in range: the
\* index y*W+x is below W*H in serious.rs and get_mut is Some in naive.rs;
\* no walk() panics or leaves the bit vector.
C1_PositionInBounds ==
    (phase \in {"active", "panicked", "ub"} /\ InBounds(start.pos)) =>
        /\ phase = "active"
        /\ 0 <= ant.pos.x /\ ant.pos.x < W
        /\ 0 <= ant.pos.y /\ ant.pos.y < H
        /\ variant = "serious" =>
               (0 <= ant.pos.y * W + ant.pos.x /\ ant.pos.y * W + ant.pos.x < W * H
                /\ ant.pos.y * W + ant.pos.x \in DOMAIN map)
        /\ variant = "naive" => naive_get(map, ant.pos).some

\* a walk() has just returned false on a grid with more than one cell, from an
\* ant that had moved away from its start
C1_Witness ==
    /\ phase = "active" /\ ret = "false" /\ InBounds(start.pos)
    /\ W > 1 /\ H > 1 /\ ant.pos # start.pos

\* C2: in serious.rs, Ant::new with a raw start outside the grid returns Err
\* with exactly that coordinate, builds no ant and leaves every cell white
\* (count_black_tiles() = 0); with an in-bounds start it builds the ant with
\* the given position and heading and leaves the grid unchanged.
C2_NewRejectsOutside ==
    (variant = "serious" /\ phase # "created" /\ ret = "none") =>
        /\ \A i \in DOMAIN map : map[i] = TRUE
        /\ count_black_tiles(map) = 0
        /\ (~InBounds(start.pos)) =>
               (phase = "rejected" /\ err = start.pos /\ ant = NoAnt)
        /\ InBounds(start.pos) =>
               (phase = "active" /\ ant.pos = start.pos /\ ant.dir = start.dir)

\* Ant::new(map, Pos::new(-1, 0), dir) was rejected
C2_Witness ==
    /\ variant = "serious" /\ phase = "rejected"
    /\ start.pos = Pos(-1, 0) /\ err = Pos(-1, 0)

\* C3: validate_pos returns Ok with the same x and y exactly when
\* 0 <= x < W and 0 <= y < H, and otherwise Err with the raw coordinate
\* unchanged; vin / vout are the argument and result of the latest call, made
\* by Ant::new on the raw start or by walk() on the candidate position.
C3_ValidateExact ==
    (variant = "serious" /\ phase # "created") =>
        /\ vout.ok <=> (0 <= vin.x /\ vin.x < W /\ 0 <= vin.y /\ vin.y < H)
        /\ vout.val.x = vin.x
        /\ vout.val.y = vin.y

\* validate_pos rejected a coordinate with both components negative
C3_Witness ==
    /\ variant = "serious" /\ phase = "rejected"
    /\ vin.x < 0 /\ vin.y < 0 /\ ~vout.ok /\ vout.val = vin

\* C4: walk() first toggles the cell at the ant's position and then rotates
\* by the NEW value of that cell: clockwise if it is now white (true),
\* counter-clockwise if it is now black (false); also when it returns false.
C4_RotationRule ==
    [][WalkStep =>
        /\ CellAt(map', ant.pos) = ~CellAt(map, ant.pos)
        /\ CellAt(map', ant.pos) => ant'.dir = cw(ant.dir)
        /\ (~CellAt(map', ant.pos)) => ant'.dir = ccw(ant.dir)]_vars

\* a walk() returned false on a cell it turned white, so it rotated clockwise
\* on the terminating step
C4_Witness ==
    /\ phase = "active" /\ ret = "false"
    /\ InBounds(ant.pos) /\ CellAt(map, ant.pos) = TRUE

\* C5: with h' the heading after the rotation and p the position before the
\* step, walk() returns true and moves to p' = p + to_shift(h') exactly when
\* p' is inside the grid; otherwise it returns false, keeps p and keeps h',
\* so that after a false the cell ahead of the ant is outside the grid.
C5_MoveOrHalt ==
    [][WalkStep =>
        LET h1 == ant'.dir
            p1 == Pos(ant.pos.x + to_shift(h1).x, ant.pos.y + to_shift(h1).y)
        IN /\ h1 \in {cw(ant.dir), ccw(ant.dir)}
           /\ ret' \in {"true", "false"}
           /\ ret' = "true" <=> InBounds(p1)
           /\ ret' = "true" => ant'.pos = p1
           /\ ret' = "false" =>
                  /\ ant'.pos = ant.pos
                  /\ ~InBounds(Pos(ant'.pos.x + to_shift(ant'.dir).x,
                                   ant'.pos.y + to_shift(ant'.dir).y))]_vars

\* a naive.rs ant halted at the east edge heading East
C5_Witness ==
    /\ variant = "naive" /\ phase = "active" /\ ret = "false"
    /\ ant.dir = "East" /\ ant.pos.x = W - 1

\* C6: once walk() has returned false, no later walk() changes the grid, the
\* heading or the position.
C6_HaltedTerminal ==
    [][ret = "false" => UNCHANGED <<map, ant>>]_vars

\* C7: the first walk() on an all-white grid turns the start cell black,
\* rotates counter-clockwise and returns false exactly when the cell ahead of
\* the rotated heading is outside the grid.  From (0,0) heading North it
\* returns false on every grid; on a 1x1 grid it leaves one black tile; on a
\* 3x3 grid from (1,1) heading North it returns true at (0,1) heading West.
C7_FirstStep ==
    [][(WalkStep /\ ret = "none") =>
        LET p == ant.pos
            h == ant.dir
            ahead == Pos(p.x + to_shift(ccw(h)).x, p.y + to_shift(ccw(h)).y)
        IN /\ CellAt(map', p) = FALSE
           /\ ant'.dir = ccw(h)
           /\ ret' = "false" <=> ~InBounds(ahead)
           /\ (p = Pos(0, 0) /\ h = "North") => ret' = "false"
           /\ (W = 1 /\ H = 1) => (ret' = "false" /\ CountMarked(map') = 1)
           /\ (W = 3 /\ H = 3 /\ p = Pos(1, 1) /\ h = "North") =>
                  (ret' = "true" /\ ant' = [pos |-> Pos(0, 1), dir |-> "West"])]_vars

\* the 3x3 scenario after its first step, in serious.rs
C7_Witness ==
    /\ variant = "serious" /\ W = 3 /\ H = 3 /\ phase = "active"
    /\ start = [pos |-> Pos(1, 1), dir |-> "North"]
    /\ ant = [pos |-> Pos(0, 1), dir |-> "West"]
    /\ ret = "true" /\ odd = {Pos(1, 1)}

\* C8: cw and ccw form the cyclic group of order 4 on the four headings: cw
\* runs North -> East -> South -> West -> North, cw and ccw are inverse to
\* each other, four cw are the identity, two cw equal two ccw, and neither
\* leaves the four headings.  Checked on the heading of every ant.
C8_RotationGroup ==
    phase = "active" =>
        LET h == ant.dir
        IN /\ cw(h) \in Direction /\ ccw(h) \in Direction
           /\ cw(h) = CASE h = "North" -> "East" [] h = "East" -> "South"
                        [] h = "South" -> "West" [] h = "West" -> "North"
           /\ cw(ccw(h)) = h
           /\ ccw(cw(h)) = h
           /\ cw(cw(cw(cw(h)))) = h
           /\ cw(cw(h)) = ccw(ccw(h))

\* an ant that walked now heads North, whose counter-clockwise rotation wraps
\* around the enumeration, and has headed West, whose clockwise rotation does
C8_Witness ==
    /\ phase = "active" /\ ret = "true"
    /\ ant.dir = "North" /\ start.dir = "West"

\* C9: count_black_tiles() is the number of black cells, which are exactly the
\* cells toggled an odd number of times; it is 0 before the first walk().
C9_CountMarked ==
    LET black == {p \in GridCells : ~CellAt(map, p)}
    IN /\ CountMarked(map) = Cardinality(black)
       /\ black = odd
       /\ ret = "none" => CountMarked(map) = 0

\* three black tiles in serious.rs while the start cell, toggled twice, is
\* white again
C9_Witness ==
    /\ variant = "serious" /\ phase = "active"
    /\ count_black_tiles(map) = 3
    /\ start.pos \notin odd /\ ret = "true"

\* C10: a walk() changes exactly one cell, the one at the ant's position
\* before the step (index y*W+x of the bit vector in serious.rs), and neither
\* the other cells nor the dimensions; distinct in-bounds positions have
\* distinct indices; Ant::new changes no cell.
C10_Frame ==
    [][/\ WalkStep =>
            /\ Changed(map, map') = {ant.pos}
            /\ DOMAIN map' = DOMAIN map
            /\ variant = "serious" =>
                   {i \in DOMAIN map : map'[i] # map[i]} = {ant.pos.y * W + ant.pos.x}
       /\ NewStep => map' = map
       /\ W' = W /\ H' = H
       /\ variant = "serious" =>
              \A p, q \in GridCells :
                  /\ CellIndex(W, p) \in DOMAIN map
                  /\ p # q => CellIndex(W, p) # CellIndex(W, q)]_vars

\* a walk() in serious.rs toggled a cell off the diagonal on a non-square grid
C10_Witness ==
    /\ variant = "serious" /\ phase = "active" /\ W # H
    /\ ret # "none" /\ \E p \in odd : p.x # p.y

\* C11: in naive.rs no ant holds an out-of-bounds coordinate: Ant::new with a
\* raw start outside the grid is rejected with that coordinate, so every ant
\* that exists is inside the grid and no walk() aborts.
C11_NaiveNewRejectsOutside ==
    (variant = "naive" /\ phase # "created") =>
        /\ phase # "panicked"
        /\ (~InBounds(start.pos)) => (phase = "rejected" /\ err = start.pos)
        /\ phase = "active" => InBounds(ant.pos)

\* C12: Map::get of naive.rs on any raw coordinate, negative ones included,
\* returns Some(value of cell (x, y)) exactly when 0 <= x < W and 0 <= y < H and
\* None otherwise: a negative coordinate wraps above every dimension in the
\* cast and is never answered with another cell's value.
C12_SafeRead ==
    [][<<gin, gout>>' # <<gin, gout>> =>
        LET p == gin'
            r == gout'
        IN /\ r.some <=> (0 <= p.x /\ p.x < W /\ 0 <= p.y /\ p.y < H)
           /\ r.some => r.val = map[p.y][p.x]
           /\ (p.x < 0 \/ p.y < 0) =>
                  (AsUsize(p.x) >= W \/ AsUsize(p.y) >= H)
           /\ map' = map]_vars

\* a read at a negative column of an existing row, after the ant made that
\* row's first cell black, answered None
C12_Witness ==
    /\ variant = "naive" /\ phase = "active" /\ ret # "none"
    /\ gin.x = -1 /\ gin.y \in 0..(H - 1) /\ ~gout.some
    /\ W > 1 /\ ~map[gin.y][1]

\* C13: a toggle changes the cell and a second toggle of the same cell
\* restores it, in both representations and on every grid the walk reaches,
\* leaving count_black_tiles() as it was; when every cell has been toggled an
\* even number of times the grid is all white again and the count is 0 as
\* before the first toggle.
C13_ToggleInvolution ==
    /\ variant = "serious" =>
           \A i \in DOMAIN map :
               /\ invert(map, i)[i] # map[i]
               /\ invert(invert(map, i), i) = map
               /\ count_black_tiles(invert(invert(map, i), i)) = count_black_tiles(map)
    /\ variant = "naive" =>
           \A p \in GridCells :
               /\ naive_invert(map, p)[p.y][p.x] # map[p.y][p.x]
               /\ naive_invert(naive_invert(map, p), p) = map
               /\ naive_count_black_tiles(naive_invert(naive_invert(map, p), p))
                      = naive_count_black_tiles(map)
    /\ odd = {} =>
           /\ \A p \in GridCells : CellAt(map, p) = TRUE
           /\ CountMarked(map) = 0

\* an ant halted in a corner has toggled its cell twice: walk() ran, and no
\* cell is black
C13_Witness ==
    /\ phase = "active" /\ ret = "false" /\ odd = {}
    /\ CountMarked(map) = 0

\* C14: to_shift is (0,-1) for North, (1,0) for East, (0,1) for South and
\* (-1,0) for West, so a walk() that returns true moves the ant to an
\* orthogonally adjacent cell: exactly one of x and y changes, by exactly 1,
\* in the direction of the new heading, and North decreases y.
C14_UnitShift ==
    [][WalkStep =>
        LET dx == ant'.pos.x - ant.pos.x
            dy == ant'.pos.y - ant.pos.y
            h1 == ant'.dir
        IN /\ to_shift(h1) = CASE h1 = "North" -> [x |-> 0, y |-> -1]
                               [] h1 = "East"  -> [x |-> 1, y |-> 0]
                               [] h1 = "South" -> [x |-> 0, y |-> 1]
                               [] h1 = "West"  -> [x |-> -1, y |-> 0]
           /\ ret' = "true" =>
                  /\ (dx = 0 /\ dy \in {-1, 1}) \/ (dy = 0 /\ dx \in {-1, 1})
                  /\ h1 = "North" => (dx = 0 /\ dy = -1)
                  /\ h1 = "East"  => (dx = 1 /\ dy = 0)
                  /\ h1 = "South" => (dx = 0 /\ dy = 1)
                  /\ h1 = "West"  => (dx = -1 /\ dy = 0)
           /\ ret' = "false" => (dx = 0 /\ dy = 0)]_vars

\* a naive.rs ant heading North has stepped into the top row from a row below
C14_Witness ==
    /\ variant = "naive" /\ phase = "active" /\ ret = "true"
    /\ ant.dir = "North" /\ ant.pos.y = 0 /\ start.pos.y > 0

\* C15: on a grid that starts all white, from every in-bounds start and
\* heading, the loop of walk_until_end reaches a walk() that returns false:
\* no run stays inside the grid forever.
C15_Terminates ==
    (phase = "active" /\ InBounds(start.pos)) ~> (phase = "active" /\ ret = "false")

\* the loop ended on a 4x4 grid after the ant had left at least five tiles
\* black
C15_Witness ==
    /\ phase = "active" /\ ret = "false" /\ InBounds(start.pos)
    /\ W = 4 /\ H = 4 /\ Cardinality(odd) >= 5

\* C16: run on grids of the same dimensions from the same in-bounds start and
\* heading, after every number of walk() calls naive.rs and serious.rs agree
\* on the result of the last walk(), the position, the heading, the value of
\* every cell and count_black_tiles().
C16_VariantsAgree ==
    twin.phase # "absent" =>
        /\ twin.phase = phase
        /\ phase \in {"created", "active"}
        /\ twin.ret = ret
        /\ twin.ant.dir = ant.dir
        /\ twin.ant.pos.x = ant.pos.x /\ twin.ant.pos.y = ant.pos.y
        /\ \A p \in GridCells : twin.map[p.y][p.x] = map[p.y * W + p.x]
        /\ naive_count_black_tiles(twin.map) = count_black_tiles(map)

\* both ants have halted away from their start, on a grid where one visited
\* cell is white again
C16_Witness ==
    /\ twin.phase = "active" /\ phase = "active"
    /\ twin.ret = "false" /\ ret = "false"
    /\ ant.pos # start.pos /\ twin.ant.pos = ant.pos
    /\ start.pos \notin odd /\ naive_count_black_tiles(twin.map) >= 3

\* the parity of x + y + heading, with North = 0, East = 1, South = 2, West = 3
Parity(a) == (a.pos.x + a.pos.y + Discriminant(a.dir)) % 2

\* C17: while every walk() so far returned true, (x + y + heading) mod 2 is
\* what it was at the start; a walk() that returns true flips the parity of
\* x + y and the axis of the heading; every walk() changes
\* count_black_tiles() by exactly +1 or -1.
C17_ParityInvariant ==
    /\ []((phase = "active" /\ InBounds(start.pos) /\ ret # "false") =>
              Parity(ant) = Parity(start))
    /\ [][WalkStep =>
            /\ ret' = "true" =>
                   /\ (ant'.pos.x + ant'.pos.y) % 2 # (ant.pos.x + ant.pos.y) % 2
                   /\ Discriminant(ant'.dir) % 2 # Discriminant(ant.dir) % 2
            /\ CountMarked(map') - CountMarked(map) \in {-1, 1}]_vars

\* a naive.rs ant that has only stepped so far is back on the parity of its
\* start after turning its start cell white again
C17_Witness ==
    /\ variant = "naive" /\ phase = "active" /\ ret = "true"
    /\ start.pos \notin odd /\ Cardinality(odd) >= 2
    /\ Parity(ant) = Parity(start)

\* C18: the data save_map_to_file hands to the encoder covers the whole grid
\* for every W and H: in naive.rs one byte per cell in row-major order, 255
\* for white and 0 for black; in serious.rs the slice bytes[0 .. W*H/8] holds
\* the bit of every one of the W*H cells (1 for white, 0 for black), also
\* when W*H is not a multiple of 8.
C18_ExportCoversGrid ==
    phase = "saved" =>
        /\ image.width = W /\ image.height = H
        /\ variant = "naive" =>
               /\ DOMAIN image.data = 0..(W * H - 1)
               /\ \A p \in GridCells :
                      image.data[p.y * W + p.x] = IF map[p.y][p.x] THEN 255 ELSE 0
        /\ variant = "serious" =>
               /\ 8 * Len(image.data) >= W * H
               /\ \A i \in 0..(W * H - 1) :
                      Bit(image.data[(i \div 8) + 1], i % 8) = IF map[i] THEN 1 ELSE 0

====
